---------------------------- MODULE Spec2Model ----------------------------
(***************************************************************************)
(* Authentication session lifecycle of the hehey client:                   *)
(*   src/services/api.ts          tokenStorage (Credential Store), the     *)
(*                                axios interceptors and authApi (HTTP     *)
(*                                Gateway), getErrorMessage                *)
(*   src/contexts/AuthContext.tsx AuthProvider (Auth Session Manager)      *)
(*                                                                         *)
(* Execution model.  JavaScript runs one task at a time; a task runs to    *)
(* its next await on a keystore operation or on the network.  The keystore *)
(* (expo-secure-store; localStorage on web) and the remote service act     *)
(* outside the JavaScript thread, so the effect of a keystore operation    *)
(* and the continuation of the code awaiting it are two steps, and steps   *)
(* of other activations may fall between them.  Each action below is one   *)
(* such step.  Every keystore operation may fail (it throws or rejects).   *)
(***************************************************************************)
EXTENDS Integers, Sequences, FiniteSets, TLC

VARIABLES
    store,      \* the keystore entry under AUTH_TOKEN_KEY
    session,    \* AuthProvider's state: user, isAuthenticated, isLoading
    initPc,     \* position of initializeAuth
    initTok,    \* the token initializeAuth read
    calls,      \* activations of login / register / logout / updatePassword
    nstarted,   \* how many activations have been started
    client,     \* a direct user of tokenStorage (StoreSpec only)
    probe,      \* a call of getErrorMessage (MessageSpec only)
    screen      \* LoginScreen's state (ScreenSpec only)

vars ==
    <<store, session, initPc, initTok, calls, nstarted, client, probe, screen>>

(***************************************************************************)
(* Bounds of the model.                                                    *)
(***************************************************************************)
\* Activations started in one behaviour.
MaxCalls == 2

\* Operations the direct tokenStorage client performs in one behaviour.
MaxStoreOps == 3

\* Activations that may overlap.
Slots == {1, 2}

(***************************************************************************)
(* JavaScript values, as far as the code distinguishes them: the type tag  *)
(* and a printable payload.                                                *)
(***************************************************************************)
Str(s) == [t |-> "string", v |-> s]

Null == [t |-> "null", v |-> ""]

Undefined == [t |-> "undefined", v |-> ""]

Num(s) == [t |-> "number", v |-> s]

\* JavaScript truthiness, used by `!token`, `if (token)`, `token && ...`.
Truthy(x) ==
    CASE x.t = "string" -> x.v # ""
      [] x.t = "number" -> x.v # "0"
      [] OTHER -> FALSE

\* The token left in the keystore by an earlier run of the application.
OldToken == Str("tok0")

\* The token the remote service issues to activation number n.
IssuedToken(n) == Str("tok" \o ToString(n))


(***************************************************************************)
(* Failures.  k = "axios" is an AxiosError (status 0: no response at all), *)
(* k = "error" any other Error, k = "none" no failure.  In a response      *)
(* payload an absent field and an empty one are both falsy: "" and << >>.  *)
(***************************************************************************)
Unauthorized == 401

NoData == [error |-> "", errors |-> << >>, message |-> ""]

NoError == [k |-> "none", status |-> 0, data |-> NoData, message |-> ""]

AxiosFailure(status, data, message) ==
    [k |-> "axios", status |-> status, data |-> data, message |-> message]

PlainError(message) ==
    [k |-> "error", status |-> 0, data |-> NoData, message |-> message]

\* What the keystore throws when it is unavailable.
KeystoreError == PlainError("Keystore unavailable")

\* The failures the remote service and the network produce in this model.
BadCredentials ==
    AxiosFailure(Unauthorized,
                 [NoData EXCEPT !.error = "Invalid email or password."],
                 "Request failed with status code 401")

ValidationFailed ==
    AxiosFailure(422,
                 [NoData EXCEPT !.message = "Validation failed",
                                !.errors = <<"Email has already been taken",
                                             "Phone is invalid">>],
                 "Request failed with status code 422")

NetworkError == AxiosFailure(0, NoData, "Network Error")

Failures == {BadCredentials, ValidationFailed, NetworkError}

(***************************************************************************)
(* getErrorMessage (api.ts).                                               *)
(***************************************************************************)
RECURSIVE JoinComma(_)
JoinComma(list) ==
    IF Len(list) = 0 THEN ""
    ELSE IF Len(list) = 1 THEN Head(list)
    ELSE Head(list) \o ", " \o JoinComma(Tail(list))

FallbackMessage == "An unexpected error occurred"

\* A getErrorMessage that looks at the payload's message before its errors.
getErrorMessageMessageFirst(error) ==
    IF error.k = "axios" /\ error.data.error # "" THEN error.data.error
    ELSE IF error.k = "axios" /\ error.data.message # "" THEN error.data.message
    ELSE IF error.k = "axios" /\ Len(error.data.errors) > 0
        THEN JoinComma(error.data.errors)
    ELSE IF error.k \in {"axios", "error"} THEN error.message
    ELSE FallbackMessage

getErrorMessage(error) ==
    IF error.k = "axios" /\ error.data.error # "" THEN error.data.error
    ELSE IF error.k = "axios" /\ Len(error.data.errors) > 0
        THEN JoinComma(error.data.errors)
    ELSE IF error.k = "axios" /\ error.data.message # "" THEN error.data.message
    ELSE IF error.k = "axios" /\ error.message # "" THEN error.message
    \* an AxiosError is an Error as well: `error instanceof Error`
    ELSE IF error.k \in {"axios", "error"} THEN error.message
    ELSE FallbackMessage

\* A thrown value that is not an Error (`error: unknown`), a string say.
ThrownValue(message) == [k |-> "other", message |-> message]

\* The longest `errors` list of a payload handed to getErrorMessage.
MaxErrors == 2

\* The lists of at most n validation messages.
ErrorLists(n) ==
    UNION {[1..len -> {"a", "b"}] : len \in 0..n}

\* The payloads of a failed response; "" is an absent field.
Payloads ==
    {[error |-> e, errors |-> l, message |-> m] :
        e \in {"", "e"}, l \in ErrorLists(MaxErrors), m \in {"", "x"}}

\* What getErrorMessage may be handed.
ThrownValues ==
    {AxiosFailure(422, d, m) : d \in Payloads, m \in {"", "Network Error"}}
        \cup {PlainError(m) : m \in {"", "Invalid token format"}}
        \cup {ThrownValue(m) : m \in {"", "oops"}}

\* No call of getErrorMessage under observation.
NoProbe == [pc |-> "idle", error |-> NoError, out |-> ""]

\* getErrorMessage(error) returns.
GetErrorMessageReturn ==
    /\ probe.pc = "called"
    /\ probe' = [probe EXCEPT !.pc = "returned",
                              !.out = getErrorMessage(probe.error)]
    /\ UNCHANGED <<store, session, initPc, initTok, calls, nstarted, client,
                   screen>>

(***************************************************************************)
(* tokenStorage (api.ts): the value each operation yields and what it      *)
(* leaves in the keystore; ok tells whether the keystore did its part.     *)
(***************************************************************************)
\* getToken: the stored value, and null when the lookup throws.
getToken(st, ok) == IF ok THEN st ELSE Null

\* A guard that rejects only null and undefined: `token == null`.
InvalidTokenFormatNullOnly(token) == token.t \in {"null", "undefined"}

\* setToken's guard: `!token || typeof token !== 'string'` throws.
InvalidTokenFormat(token) == ~Truthy(token) \/ token.t # "string"

InvalidFormat == PlainError("Invalid token format")

\* A setToken that writes only when no token is stored yet.
setTokenIfAbsent(st, token, ok) ==
    IF ~InvalidTokenFormat(token) /\ ok /\ st.t = "null" THEN token ELSE st

\* A setToken that writes the value and validates it afterwards.
setTokenWritesFirst(st, token, ok) == IF ok THEN token ELSE st

\* setToken: the keystore after setItem(AUTH_TOKEN_KEY, token).
setToken(st, token, ok) ==
    IF InvalidTokenFormat(token) THEN st
    ELSE IF ok THEN token
    ELSE st

\* setToken: what it throws, NoError when it resolves.
setTokenError(token, ok) ==
    IF InvalidTokenFormat(token) THEN InvalidFormat
    ELSE IF ok THEN NoError
    ELSE KeystoreError

\* A removeToken that resolves without deleting the entry.
removeTokenKeepsEntry(st, ok) == st

\* removeToken: the keystore after removeItem / deleteItemAsync.
removeToken(st, ok) == IF ok THEN Null ELSE st

\* removeToken: what it throws, NoError when it resolves.
removeTokenError(ok) == IF ok THEN NoError ELSE KeystoreError

(***************************************************************************)
(* The interceptors of the shared axios instance (api.ts).                 *)
(***************************************************************************)
\* No Authorization header on the request.
NoHeader == ""

\* A request interceptor that does not await getToken: the "token" is the
\* pending promise, which is truthy.
requestInterceptorNoAwait(token) == "Bearer [object Promise]"

\* Request interceptor: the Authorization header for the token it read
\* (config.headers is always there on an InternalAxiosRequestConfig).
requestInterceptor(token) ==
    IF Truthy(token) THEN "Bearer " \o token.v ELSE NoHeader

\* Response interceptor: does this failure make it clear the stored token?
clearsToken(error) == error.k = "axios" /\ error.status = Unauthorized

\* Response interceptor: the failure it rejects with, given the failure of
\* the request and what its own removeToken threw (NoError: nothing).
responseInterceptor(error, removeError) ==
    IF clearsToken(error) /\ removeError.k # "none" THEN removeError ELSE error

(***************************************************************************)
(* The success envelope and normalizeUser (api.ts).                        *)
(***************************************************************************)
RailsUser(n) ==
    [id |-> n, email |-> "user" \o ToString(n) \o "@hehey.app",
     first_name |-> "Jane"]

normalizeUser(railsUser) ==
    [id |-> railsUser.id, email |-> railsUser.email,
     firstName |-> railsUser.first_name]

\* data.token of the envelope answering activation n: the issued token, or
\* a malformed one (empty, missing, not a string).
EnvelopeTokens(n) == {IssuedToken(n), Str(""), Undefined, Num("7")}

(***************************************************************************)
(* AuthProvider's state (AuthContext.tsx).  user is {} when null and {u}   *)
(* when it is the User u.                                                  *)
(***************************************************************************)
AuthState(user, isAuthenticated, isLoading) ==
    [user |-> user, isAuthenticated |-> isAuthenticated, isLoading |-> isLoading]

\* useState's initial value.
InitialState == AuthState({}, FALSE, TRUE)

\* An initializeAuth testing `token !== undefined`, which null passes.
initializeAuthStateAnyToken(token) ==
    IF token.t # "undefined" THEN AuthState({}, TRUE, FALSE)
    ELSE AuthState({}, FALSE, FALSE)

\* What initializeAuth sets for the token it read.
initializeAuthState(token) ==
    IF Truthy(token) THEN AuthState({}, TRUE, FALSE)
    ELSE AuthState({}, FALSE, FALSE)

\* A handleAuthSuccess that sets the user and forgets the flag.
handleAuthSuccessStateNoFlag(user) == AuthState({user}, FALSE, FALSE)

\* What handleAuthSuccess sets.
handleAuthSuccessState(user) == AuthState({user}, TRUE, FALSE)

\* A logout that shows the loading state again.
logoutStateLoading == AuthState({}, FALSE, TRUE)

\* What logout sets.
logoutState == AuthState({}, FALSE, FALSE)

(***************************************************************************)
(* Activations of the Auth Session Manager's operations.                   *)
(*   op, n      the operation and the activation's number                  *)
(*   pc         where it stands:                                           *)
(*     "getToken"     request interceptor awaits tokenStorage.getToken     *)
(*     "send"         the interceptor has the token, request not yet sent  *)
(*     "sent"         the request is with the remote service               *)
(*     "unauthorized" response interceptor awaits removeToken (401)        *)
(*     "reject"       that removeToken has answered                        *)
(*     "setToken"     handleAuthSuccess awaits tokenStorage.setToken       *)
(*     "setState"     that setToken has resolved                           *)
(*     "removeToken"  logout's finally awaits tokenStorage.removeToken     *)
(*     "loggedOut"    that removeToken has resolved                        *)
(*     "resolved"     the operation's promise is fulfilled                 *)
(*     "rejected"     the operation's promise is rejected with `thrown`    *)
(*   read       what the request interceptor's getToken returned           *)
(*   auth       the Authorization header of the request                    *)
(*   sent       requests dispatched                                        *)
(*   token,user the success envelope's token and normalized user           *)
(*   failure    the failure the request produced                           *)
(*   removeErr  what the response interceptor's removeToken threw          *)
(*   caught     the failure that reached the operation's catch             *)
(*   thrown     the message of the Error the operation rejects with        *)
(***************************************************************************)
Operations == {"login", "register", "logout", "updatePassword"}

NoCall ==
    [op |-> "none", n |-> 0, pc |-> "idle", read |-> Undefined,
     auth |-> NoHeader, sent |-> 0, token |-> Undefined, user |-> {},
     failure |-> NoError, removeErr |-> NoError, caught |-> NoError,
     thrown |-> ""]

Settled(c) == calls[c].pc \in {"idle", "resolved", "rejected"}

InFlight(c) == ~Settled(c)

\* A new activation takes the lowest slot that is free.
FreeSlot(c) == Settled(c) /\ \A d \in Slots : d < c => InFlight(d)

\* authApi.<op> calls api.post/delete/put: the request interceptor starts
\* and awaits tokenStorage.getToken().
Begin(c, op) ==
    /\ nstarted < MaxCalls
    /\ FreeSlot(c)
    /\ calls' = [calls EXCEPT ![c] =
                    [NoCall EXCEPT !.op = op, !.n = nstarted + 1,
                                   !.pc = "getToken"]]
    /\ nstarted' = nstarted + 1
    /\ UNCHANGED <<store, session, initPc, initTok, client, probe>>

\* An operation of the context is called from anywhere but LoginScreen.
Start(c, op) == Begin(c, op) /\ UNCHANGED screen

login(c) == Start(c, "login")

register(c) == Start(c, "register")

logout(c) == Start(c, "logout")

updatePassword(c) == Start(c, "updatePassword")

\* The keystore answers the request interceptor's getToken.
RequestGetToken(c) ==
    /\ calls[c].pc = "getToken"
    /\ \E ok \in BOOLEAN :
          calls' = [calls EXCEPT ![c].read = getToken(store, ok),
                                 ![c].pc = "send"]
    /\ UNCHANGED <<store, session, initPc, initTok, nstarted, client, probe,
                   screen>>

\* The request interceptor returns the config; axios dispatches the request.
RequestSend(c) ==
    /\ calls[c].pc = "send"
    /\ calls' = [calls EXCEPT ![c].auth = requestInterceptor(calls[c].read),
                              ![c].sent = calls[c].sent + 1,
                              ![c].pc = "sent"]
    /\ UNCHANGED <<store, session, initPc, initTok, nstarted, client, probe,
                   screen>>

\* A catch block that rethrows the raw message: new Error(error.message).
CatchRawMessage(call, error) ==
    IF call.op = "logout"
    THEN [call EXCEPT !.caught = error, !.pc = "removeToken"]
    ELSE [call EXCEPT !.caught = error, !.thrown = error.message,
                      !.pc = "rejected"]

\* The operation's catch block receives `error`: login, register and
\* updatePassword throw new Error(getErrorMessage(error)); logout logs it and
\* goes on to its finally block.
Catch(call, error) ==
    IF call.op = "logout"
    THEN [call EXCEPT !.caught = error, !.pc = "removeToken"]
    ELSE [call EXCEPT !.caught = error, !.thrown = getErrorMessage(error),
                      !.pc = "rejected"]

\* A success handling in which updatePassword, too, passes its response to
\* handleAuthSuccess.
AfterSuccessAllAuth(call, token) ==
    IF call.op = "logout" THEN [call EXCEPT !.pc = "removeToken"]
    ELSE LET got == [call EXCEPT !.token = token,
                                 !.user = {normalizeUser(RailsUser(call.n))}]
         IN  IF InvalidTokenFormat(token)
             THEN Catch(got, setTokenError(token, TRUE))
             ELSE [got EXCEPT !.pc = "setToken"]

\* The remote service answers with a success status.  login and register
\* take token and user from the envelope and enter handleAuthSuccess, whose
\* setToken throws at once on a malformed token; logout goes on to its
\* finally block; updatePassword is done.
AfterSuccess(call, token) ==
    IF call.op \in {"login", "register"}
    THEN LET got == [call EXCEPT !.token = token,
                                 !.user = {normalizeUser(RailsUser(call.n))}]
         IN  IF InvalidTokenFormat(token)
             THEN Catch(got, setTokenError(token, TRUE))
             ELSE [got EXCEPT !.pc = "setToken"]
    ELSE IF call.op = "logout" THEN [call EXCEPT !.pc = "removeToken"]
    ELSE [call EXCEPT !.pc = "resolved"]

RespondSuccess(c) ==
    /\ calls[c].pc = "sent"
    /\ \E token \in EnvelopeTokens(calls[c].n) :
          calls' = [calls EXCEPT ![c] = AfterSuccess(calls[c], token)]
    /\ UNCHANGED <<store, session, initPc, initTok, nstarted, client, probe,
                   screen>>

\* A response interceptor that starts removeToken without awaiting it: the
\* failure is delivered at once.
AfterFailureNoAwait(call, error) ==
    Catch([call EXCEPT !.failure = error], error)

\* The request fails.  The response interceptor awaits removeToken on a 401
\* and otherwise rejects with the failure at once.
AfterFailure(call, error) ==
    IF clearsToken(error)
    THEN [call EXCEPT !.failure = error, !.pc = "unauthorized"]
    ELSE Catch([call EXCEPT !.failure = error],
               responseInterceptor(error, NoError))

RespondFailure(c) ==
    /\ calls[c].pc = "sent"
    /\ \E error \in Failures :
          calls' = [calls EXCEPT ![c] = AfterFailure(calls[c], error)]
    /\ UNCHANGED <<store, session, initPc, initTok, nstarted, client, probe,
                   screen>>

\* The keystore answers the response interceptor's removeToken.
UnauthorizedRemoveToken(c) ==
    /\ calls[c].pc = "unauthorized"
    /\ \E ok \in BOOLEAN :
          /\ store' = removeToken(store, ok)
          /\ calls' = [calls EXCEPT ![c].removeErr = removeTokenError(ok),
                                    ![c].pc = "reject"]
    /\ UNCHANGED <<session, initPc, initTok, nstarted, client, probe, screen>>

\* The response interceptor rejects; the failure reaches the operation.
UnauthorizedReject(c) ==
    /\ calls[c].pc = "reject"
    /\ calls' = [calls EXCEPT ![c] =
                    Catch(calls[c], responseInterceptor(calls[c].failure,
                                                        calls[c].removeErr))]
    /\ UNCHANGED <<store, session, initPc, initTok, nstarted, client, probe,
                   screen>>

\* The keystore answers handleAuthSuccess's setToken; when it throws, the
\* operation's catch block runs.
AuthSuccessSetToken(c) ==
    /\ calls[c].pc = "setToken"
    /\ \E ok \in BOOLEAN :
          /\ store' = setToken(store, calls[c].token, ok)
          /\ calls' = [calls EXCEPT ![c] =
                IF setTokenError(calls[c].token, ok).k = "none"
                THEN [calls[c] EXCEPT !.pc = "setState"]
                ELSE Catch(calls[c], setTokenError(calls[c].token, ok))]
    /\ UNCHANGED <<session, initPc, initTok, nstarted, client, probe, screen>>

\* A handleAuthSuccess that leaves a signed-in Session as it is: of two
\* overlapping calls the first to write would win.
AuthSuccessSetStateOnce(c) ==
    /\ calls[c].pc = "setState"
    /\ session' = IF session.isAuthenticated /\ session.user # {}
                  THEN session
                  ELSE handleAuthSuccessState(CHOOSE u \in calls[c].user : TRUE)
    /\ calls' = [calls EXCEPT ![c].pc = "resolved"]
    /\ UNCHANGED <<store, initPc, initTok, nstarted, client, probe, screen>>

\* handleAuthSuccess resumes: setState, and login / register return.
AuthSuccessSetState(c) ==
    /\ calls[c].pc = "setState"
    /\ session' = handleAuthSuccessState(CHOOSE u \in calls[c].user : TRUE)
    /\ calls' = [calls EXCEPT ![c].pc = "resolved"]
    /\ UNCHANGED <<store, initPc, initTok, nstarted, client, probe, screen>>

\* The keystore answers the removeToken of logout's finally block; when it
\* throws, logout rejects with that error and never reaches setState.
LogoutRemoveToken(c) ==
    /\ calls[c].pc = "removeToken"
    /\ \E ok \in BOOLEAN :
          /\ store' = removeToken(store, ok)
          /\ calls' = [calls EXCEPT ![c] =
                IF removeTokenError(ok).k = "none"
                THEN [calls[c] EXCEPT !.pc = "loggedOut"]
                ELSE [calls[c] EXCEPT !.thrown = removeTokenError(ok).message,
                                      !.pc = "rejected"]]
    /\ UNCHANGED <<session, initPc, initTok, nstarted, client, probe, screen>>

\* logout's finally block resumes: setState, and logout returns.
LogoutSetState(c) ==
    /\ calls[c].pc = "loggedOut"
    /\ session' = logoutState
    /\ calls' = [calls EXCEPT ![c].pc = "resolved"]
    /\ UNCHANGED <<store, initPc, initTok, nstarted, client, probe, screen>>

(***************************************************************************)
(* initializeAuth, run once by AuthProvider's effect.  getToken never      *)
(* throws (it returns null instead), so the catch block of initializeAuth  *)
(* is never entered.                                                       *)
(***************************************************************************)
\* The keystore answers initializeAuth's getToken.
InitGetToken ==
    /\ initPc = "getToken"
    /\ \E ok \in BOOLEAN : initTok' = getToken(store, ok)
    /\ initPc' = "setState"
    /\ UNCHANGED <<store, session, calls, nstarted, client, probe, screen>>

\* initializeAuth resumes and sets the state.
InitSetState ==
    /\ initPc = "setState"
    /\ session' = initializeAuthState(initTok)
    /\ initPc' = "done"
    /\ UNCHANGED <<store, initTok, calls, nstarted, client, probe, screen>>

(***************************************************************************)
(* A direct user of the exported tokenStorage, one operation at a time.    *)
(* last and prev are its two most recent completed operations: the         *)
(* operation, its argument, whether the keystore did its part, the value   *)
(* getToken returned and what the operation threw.                         *)
(***************************************************************************)
NoOp ==
    [op |-> "none", arg |-> Undefined, ok |-> TRUE, ret |-> Undefined,
     err |-> NoError]

NoClient ==
    [pc |-> "idle", op |-> "none", arg |-> Undefined, done |-> 0,
     last |-> NoOp, prev |-> NoOp]

\* The values handed to setToken: tokens, and what is not a token.
TokenArgs == {Str("tokA"), Str("tokB"), Str(""), Undefined, Num("7")}

ClientCall(op, arg) ==
    /\ client.pc = "idle"
    /\ client.done < MaxStoreOps
    /\ client' = [client EXCEPT !.pc = "await", !.op = op, !.arg = arg]
    /\ UNCHANGED <<store, session, initPc, initTok, calls, nstarted, probe,
                   screen>>

ClientGetToken == ClientCall("getToken", Undefined)

ClientSetToken == \E token \in TokenArgs : ClientCall("setToken", token)

ClientRemoveToken == ClientCall("removeToken", Undefined)

\* The operation the client awaits settles.
ClientAnswer ==
    /\ client.pc = "await"
    /\ \E ok \in BOOLEAN :
          /\ store' = CASE client.op = "setToken" ->
                               setToken(store, client.arg, ok)
                        [] client.op = "removeToken" -> removeToken(store, ok)
                        [] OTHER -> store
          /\ client' = [client EXCEPT
                !.pc = "idle",
                !.done = client.done + 1,
                !.prev = client.last,
                !.last =
                    [op |-> client.op, arg |-> client.arg, ok |-> ok,
                     ret |-> IF client.op = "getToken"
                             THEN getToken(store, ok) ELSE Undefined,
                     err |-> CASE client.op = "setToken" ->
                                      setTokenError(client.arg, ok)
                               [] client.op = "removeToken" ->
                                      removeTokenError(ok)
                               [] OTHER -> NoError]]
    /\ UNCHANGED <<session, initPc, initTok, calls, nstarted, probe, screen>>

(***************************************************************************)
(* LoginScreen (src/unnamed/part_001).  A text is the sequence of its      *)
(* characters.                                                             *)
(***************************************************************************)
Rep(ch, n) == [i \in 1..n |-> ch]

\* String.prototype.trim, for the one kind of white space typed here.
RECURSIVE trimStart(_)
trimStart(text) ==
    IF text # << >> /\ Head(text) = " " THEN trimStart(Tail(text)) ELSE text

RECURSIVE trimEnd(_)
trimEnd(text) ==
    IF text # << >> /\ text[Len(text)] = " "
    THEN trimEnd(SubSeq(text, 1, Len(text) - 1))
    ELSE text

trim(text) == trimEnd(trimStart(text))

\* `phone.trim().length !== 10`
PhoneLength == 10

\* `password.length < 8`
MinPasswordLength == 8

\* text.replace(/[^0-9]/g, '') of the phone input's onChangeText.
DigitsOnly(text) == SelectSeq(text, LAMBDA ch : ch \in {"0", "9"})

Fields ==
    {"email", "password", "firstName", "lastName", "phone",
     "passwordConfirmation"}

\* The inputs rendered in each mode.
Rendered(mode) == IF mode = "login" THEN {"email", "password"} ELSE Fields

\* What is typed into the inputs: nothing, blanks, and texts on both sides
\* of each rule of the validation.
Typed(field) ==
    CASE field = "phone" ->
            {<< >>, Rep("9", PhoneLength),
             <<"9", "-">> \o Rep("0", PhoneLength - 2)}
      [] field = "password" ->
            {<< >>, Rep(" ", MinPasswordLength),
             Rep("p", MinPasswordLength - 1),
             <<" ">> \o Rep("p", MinPasswordLength - 1)}
      [] field = "passwordConfirmation" ->
            {<< >>, Rep("p", MinPasswordLength - 1),
             <<" ">> \o Rep("p", MinPasswordLength - 1)}
      [] field = "email" -> {<< >>, <<" ">>, <<" ", "a", "@", "b", " ">>}
      [] OTHER -> {<< >>, <<"J", "o", " ">>}

FieldError(field, message) == [field |-> field, message |-> message]

\* The screen as mounted: useState's initial values.
NoScreen ==
    [mode |-> "login", email |-> << >>, password |-> << >>,
     firstName |-> << >>, lastName |-> << >>, phone |-> << >>,
     passwordConfirmation |-> << >>, isSubmitting |-> FALSE, errors |-> {},
     pc |-> "idle", call |-> 0]

\* handleSubmit's client-side validation: the newErrors it builds.
Required(sc, field, message) ==
    IF trim(sc[field]) = << >> THEN {FieldError(field, message)} ELSE {}

\* A validation that does not look at the length of the phone number.
newErrorsAnyPhone(sc) ==
    IF sc.mode = "login"
    THEN Required(sc, "email", "Email is required")
            \cup Required(sc, "password", "Password is required")
    ELSE Required(sc, "firstName", "First name is required")
            \cup Required(sc, "lastName", "Last name is required")
            \cup Required(sc, "email", "Email is required")
            \cup Required(sc, "phone", "Phone number is required")
            \cup (IF trim(sc.password) = << >>
                  THEN {FieldError("password", "Password is required")}
                  ELSE IF Len(sc.password) < MinPasswordLength
                  THEN {FieldError("password",
                                   "Password must be at least 8 characters")}
                  ELSE {})
            \cup (IF trim(sc.passwordConfirmation) = << >>
                  THEN {FieldError("passwordConfirmation",
                                   "Please confirm your password")}
                  ELSE IF sc.password # sc.passwordConfirmation
                  THEN {FieldError("passwordConfirmation",
                                   "Passwords do not match")}
                  ELSE {})

newErrors(sc) ==
    IF sc.mode = "login"
    THEN Required(sc, "email", "Email is required")
            \cup Required(sc, "password", "Password is required")
    ELSE Required(sc, "firstName", "First name is required")
            \cup Required(sc, "lastName", "Last name is required")
            \cup Required(sc, "email", "Email is required")
            \cup (IF trim(sc.phone) = << >>
                  THEN {FieldError("phone", "Phone number is required")}
                  ELSE IF Len(trim(sc.phone)) # PhoneLength
                  THEN {FieldError("phone", "Phone number must be 10 digits")}
                  ELSE {})
            \cup (IF trim(sc.password) = << >>
                  THEN {FieldError("password", "Password is required")}
                  ELSE IF Len(sc.password) < MinPasswordLength
                  THEN {FieldError("password",
                                   "Password must be at least 8 characters")}
                  ELSE {})
            \cup (IF trim(sc.passwordConfirmation) = << >>
                  THEN {FieldError("passwordConfirmation",
                                   "Please confirm your password")}
                  ELSE IF sc.password # sc.passwordConfirmation
                  THEN {FieldError("passwordConfirmation",
                                   "Passwords do not match")}
                  ELSE {})

\* message.toLowerCase().includes(word), tabulated for the messages login
\* and register throw here.
Includes(message, word) ==
    <<message, word>> \in
        {<<"Invalid email or password.", "email">>,
         <<"Invalid email or password.", "password">>,
         <<"Email has already been taken, Phone is invalid", "email">>,
         <<"Email has already been taken, Phone is invalid", "phone">>}

\* parseApiError: the field an API error message is shown under.
parseApiError(message) ==
    IF Includes(message, "email") THEN {FieldError("email", message)}
    ELSE IF Includes(message, "password") /\ Includes(message, "confirm")
        THEN {FieldError("passwordConfirmation", message)}
    ELSE IF Includes(message, "password")
        THEN {FieldError("password", message)}
    ELSE IF Includes(message, "phone") THEN {FieldError("phone", message)}
    ELSE IF Includes(message, "first name")
        THEN {FieldError("firstName", message)}
    ELSE IF Includes(message, "last name")
        THEN {FieldError("lastName", message)}
    ELSE {FieldError("general", message)}

\* onChangeText of an input: editable only while not submitting; the phone
\* input keeps digits only; the field's error is cleared.  The form is
\* filled in before the first request; later submissions send it again.
ChangeText(field, text) ==
    /\ ~screen.isSubmitting
    /\ nstarted = 0
    /\ field \in Rendered(screen.mode)
    /\ screen' = [screen EXCEPT
          ![field] = IF field = "phone" THEN DigitsOnly(text) ELSE text,
          !.errors = {e \in screen.errors : e.field # field}]
    /\ UNCHANGED <<store, session, initPc, initTok, calls, nstarted, client,
                   probe>>

\* toggleMode(newMode): the other tab is pressed; every field is reset.
toggleMode(newMode) ==
    /\ newMode # screen.mode
    /\ screen' = [NoScreen EXCEPT !.mode = newMode,
                                  !.isSubmitting = screen.isSubmitting,
                                  !.pc = screen.pc, !.call = screen.call]
    /\ UNCHANGED <<store, session, initPc, initTok, calls, nstarted, client,
                   probe>>

\* A handleSubmit that does not set isSubmitting.
handleSubmitNoFlag ==
    /\ ~screen.isSubmitting
    /\ IF newErrors(screen) # {}
       THEN /\ screen' = [screen EXCEPT !.errors = newErrors(screen)]
            /\ UNCHANGED <<store, session, initPc, initTok, calls, nstarted,
                           client, probe>>
       ELSE \E c \in Slots :
               /\ Begin(c, IF screen.mode = "login" THEN "login"
                                                    ELSE "register")
               /\ screen' = [screen EXCEPT !.errors = {}, !.pc = "await",
                                           !.call = c]

\* The submit button, disabled while isSubmitting, is pressed: handleSubmit
\* validates the form and either shows the errors or sets isSubmitting and
\* calls login / register, which it awaits.
handleSubmit ==
    /\ ~screen.isSubmitting
    /\ IF newErrors(screen) # {}
       THEN /\ screen' = [screen EXCEPT !.errors = newErrors(screen)]
            /\ UNCHANGED <<store, session, initPc, initTok, calls, nstarted,
                           client, probe>>
       ELSE \E c \in Slots :
               /\ Begin(c, IF screen.mode = "login" THEN "login"
                                                    ELSE "register")
               /\ screen' = [screen EXCEPT !.errors = {}, !.pc = "await",
                                           !.isSubmitting = TRUE,
                                           !.call = c]

\* The awaited login / register has settled: handleSubmit resumes, shows
\* the message of a rejection, and its finally block resets isSubmitting.
SubmitSettled ==
    /\ screen.pc = "await"
    /\ Settled(screen.call)
    /\ screen' = [screen EXCEPT
          !.pc = "idle",
          !.isSubmitting = FALSE,
          !.errors = IF calls[screen.call].pc = "rejected"
                     THEN parseApiError(calls[screen.call].thrown)
                     ELSE @]
    /\ UNCHANGED <<store, session, initPc, initTok, calls, nstarted, client,
                   probe>>

(***************************************************************************)
(* The specification: AuthProvider mounted, the keystore holding nothing   *)
(* or the token of an earlier run, any operation started at any time.      *)
(***************************************************************************)
Init ==
    /\ store \in {Null, OldToken}
    /\ session = InitialState
    /\ initPc = "getToken"
    /\ initTok = Undefined
    /\ calls = [c \in Slots |-> NoCall]
    /\ nstarted = 0
    /\ client = NoClient
    /\ probe = NoProbe
    /\ screen = NoScreen

\* An operation is started.
Starts ==
    \/ \E c \in Slots : login(c)
    \/ \E c \in Slots : register(c)
    \/ \E c \in Slots : logout(c)
    \/ \E c \in Slots : updatePassword(c)

\* The keystore or the remote service answers, or awaiting code resumes.
Steps ==
    \/ InitGetToken
    \/ InitSetState
    \/ \E c \in Slots : RequestGetToken(c)
    \/ \E c \in Slots : RequestSend(c)
    \/ \E c \in Slots : RespondSuccess(c)
    \/ \E c \in Slots : RespondFailure(c)
    \/ \E c \in Slots : UnauthorizedRemoveToken(c)
    \/ \E c \in Slots : UnauthorizedReject(c)
    \/ \E c \in Slots : AuthSuccessSetToken(c)
    \/ \E c \in Slots : AuthSuccessSetState(c)
    \/ \E c \in Slots : LogoutRemoveToken(c)
    \/ \E c \in Slots : LogoutSetState(c)

Next == Starts \/ Steps

Spec == Init /\ [][Next]_vars

\* The same with the fairness the event loop and the keystore give
\* initializeAuth: a pending lookup is answered, awaiting code is resumed.
LiveSpec == Spec /\ WF_vars(InitGetToken) /\ WF_vars(InitSetState)

(***************************************************************************)
(* The calling discipline of section 4.4 of the specification: the         *)
(* Presentation Layer starts an operation only when none is in flight.     *)
(* initializeAuth still runs beside the operations.                        *)
(***************************************************************************)
NoneInFlight == \A c \in Slots : Settled(c)

SingleFlightNext == (NoneInFlight /\ Starts) \/ Steps

SingleFlight == Init /\ [][SingleFlightNext]_vars

(***************************************************************************)
(* LoginScreen mounted under AuthProvider: the user types, switches tabs   *)
(* and presses the submit button; the event loop resumes a handleSubmit    *)
(* whose call has settled.                                                 *)
(***************************************************************************)
ScreenNext ==
    \/ \E field \in Fields : \E text \in Typed(field) : ChangeText(field, text)
    \/ \E newMode \in {"login", "signup"} : toggleMode(newMode)
    \/ handleSubmit
    \/ SubmitSettled
    \/ InitGetToken
    \/ InitSetState
    \/ \E c \in Slots : RequestGetToken(c)
    \/ \E c \in Slots : RequestSend(c)
    \/ \E c \in Slots : RespondSuccess(c)
    \/ \E c \in Slots : RespondFailure(c)
    \/ \E c \in Slots : UnauthorizedRemoveToken(c)
    \/ \E c \in Slots : UnauthorizedReject(c)
    \/ \E c \in Slots : AuthSuccessSetToken(c)
    \/ \E c \in Slots : AuthSuccessSetState(c)

ScreenSpec == Init /\ [][ScreenNext]_vars /\ WF_vars(SubmitSettled)

(***************************************************************************)
(* getErrorMessage on its own: called with any thrown value.               *)
(***************************************************************************)
MessageInit ==
    /\ store \in {Null, OldToken}
    /\ session = InitialState
    /\ initPc = "getToken"
    /\ initTok = Undefined
    /\ calls = [c \in Slots |-> NoCall]
    /\ nstarted = 0
    /\ client = NoClient
    /\ probe \in {[pc |-> "called", error |-> e, out |-> ""] :
                    e \in ThrownValues}
    /\ screen = NoScreen

MessageNext == GetErrorMessageReturn

MessageSpec == MessageInit /\ [][MessageNext]_vars

(***************************************************************************)
(* The Credential Store on its own: tokenStorage used directly.            *)
(***************************************************************************)
StoreNext ==
    \/ ClientGetToken
    \/ ClientSetToken
    \/ ClientRemoveToken
    \/ ClientAnswer

StoreSpec == Init /\ [][StoreNext]_vars

(***************************************************************************)
(* Properties.                                                             *)
(***************************************************************************)
\* Activation c takes a step that leaves it at position pc.
Reaches(c, pc) == calls[c].pc # pc /\ calls'[c].pc = pc

IsToken(x) == x.t = "string" /\ x.v # ""

\* C1: a logout that completes leaves Session = {absent, false, false} and
\* the keystore empty, whether the remote request succeeded or failed; a
\* remote failure never makes logout reject (only the failure of its own
\* removeToken does, and then nothing has been changed).
C1_LogoutTearsDown ==
    [][\A c \in Slots :
         calls'[c].op = "logout" =>
           /\ Reaches(c, "resolved") =>
                session' = AuthState({}, FALSE, FALSE) /\ store' = Null
           /\ Reaches(c, "rejected") =>
                /\ calls[c].pc = "removeToken"
                /\ calls'[c].thrown = KeystoreError.message
                /\ store' = store /\ session' = session]_vars

\* A logout has completed although the remote request failed.
C1_Witness ==
    \E c \in Slots :
        /\ calls[c].op = "logout" /\ calls[c].pc = "resolved"
        /\ calls[c].caught.k = "axios"
        /\ session = AuthState({}, FALSE, FALSE) /\ store = Null

\* C2: when login or register returns after a success envelope carrying
\* token T and user U, the keystore holds T and Session = {U, true, false}.
C2_AuthSuccessPersists ==
    [][\A c \in Slots :
         calls'[c].op \in {"login", "register"} /\ Reaches(c, "resolved") =>
           /\ IsToken(calls'[c].token)
           /\ store' = calls'[c].token
           /\ session' = AuthState(calls'[c].user, TRUE, FALSE)
           /\ calls'[c].user = {normalizeUser(RailsUser(calls'[c].n))}]_vars

\* A register has returned from an unauthenticated session.
C2_Witness ==
    \E c \in Slots :
        /\ calls[c].op = "register" /\ calls[c].pc = "resolved"
        /\ initPc = "done" /\ initTok = Null
        /\ store = IssuedToken(calls[c].n)
        /\ session = AuthState({normalizeUser(RailsUser(calls[c].n))},
                               TRUE, FALSE)

\* C3: no step of a login or register that fails changes Session, and the
\* caller receives the message getErrorMessage gives for the failure that
\* reached the operation.
C3_AuthFailureKeepsSession ==
    [][\A c \in Slots :
         /\ calls'[c] # calls[c]
         /\ calls'[c].op \in {"login", "register"}
         /\ calls'[c].pc # "resolved"
         => /\ session' = session
            /\ calls'[c].pc = "rejected" =>
                 LET e == calls'[c].caught
                     m == calls'[c].thrown
                 IN  /\ e.k # "none"
                     /\ m = getErrorMessage(e)
                     /\ e = BadCredentials => m = "Invalid email or password."
                     /\ e = ValidationFailed =>
                          m = "Email has already been taken, Phone is invalid"
                     /\ e = NetworkError => m = "Network Error"
                     /\ e = InvalidFormat => m = "Invalid token format"
                     /\ e = KeystoreError => m = "Keystore unavailable"]_vars

\* A login has failed on the remote service's 401 and a register on
\* persisting the token it was issued.
C3_Witness ==
    /\ \E c \in Slots :
          /\ calls[c].op = "login" /\ calls[c].pc = "rejected"
          /\ calls[c].caught = BadCredentials
          /\ calls[c].thrown = "Invalid email or password."
    /\ \E c \in Slots :
          /\ calls[c].op = "register" /\ calls[c].pc = "rejected"
          /\ IsToken(calls[c].token)
          /\ calls[c].caught = KeystoreError

\* C4: when the failure of a request answered with 401 is delivered to the
\* operation that made the request, the response interceptor's removeToken
\* has resolved and the keystore holds no token.
C4_UnauthorizedClearsFirst ==
    [][\A c \in Slots :
         /\ calls'[c].caught # calls[c].caught
         /\ calls'[c].caught.status = Unauthorized
         => /\ calls[c].pc = "reject" /\ calls[c].removeErr = NoError
            /\ store = Null /\ store' = Null]_vars

\* A request that carried the stored token was answered 401 and its failure
\* has been delivered.
C4_Witness ==
    \E c \in Slots :
        /\ calls[c].auth = "Bearer tok0"
        /\ calls[c].caught = BadCredentials
        /\ store = Null

\* C5: the failure the response interceptor delivers is the failure the
\* request produced, and an operation dispatches one request.
C5_OriginalFailureDelivered ==
    \A c \in Slots :
        /\ calls[c].sent <= 1
        /\ calls[c].failure.k # "none" /\ calls[c].caught.k # "none"
           => calls[c].caught = calls[c].failure

\* C6: a request is dispatched only after the interceptor's getToken has
\* returned, and carries 'Authorization: Bearer T' exactly when that
\* returned a token T.
C6_BearerIffTokenRead ==
    \A c \in Slots :
        /\ calls[c].pc \in {"idle", "getToken"} =>
             calls[c].sent = 0 /\ calls[c].read = Undefined
        /\ calls[c].pc = "send" => calls[c].sent = 0
        /\ calls[c].sent > 0 =>
             /\ calls[c].read = Null \/ IsToken(calls[c].read)
             /\ IsToken(calls[c].read) =>
                  calls[c].auth = "Bearer " \o calls[c].read.v
             /\ calls[c].read = Null => calls[c].auth = NoHeader

\* One request went out with the stored token and one without a header.
C6_Witness ==
    /\ \E c \in Slots :
          calls[c].sent = 1 /\ calls[c].read = OldToken
          /\ calls[c].auth = "Bearer tok0"
    /\ \E c \in Slots :
          calls[c].sent = 1 /\ calls[c].read = Null
          /\ calls[c].auth = NoHeader

\* C7: initializeAuth reads the stored token (null when the lookup fails)
\* and sets {absent, true, false} for a token, {absent, false, false}
\* otherwise; it never sets a user.
C7_InitFollowsStore ==
    [][/\ initPc = "getToken" /\ initPc' = "setState" =>
            initTok' \in {store, Null}
       /\ initPc = "setState" /\ initPc' = "done" =>
            session' = AuthState({}, IsToken(initTok), FALSE)]_vars

\* initializeAuth found the token of an earlier run.
C7_Witness ==
    /\ initPc = "done" /\ initTok = OldToken
    /\ session = AuthState({}, TRUE, FALSE)

\* C8: Session starts {absent, false, true}; isLoading becomes false, and
\* once false it stays false.
C8_LoadingEnds ==
    /\ session = AuthState({}, FALSE, TRUE)
    /\ <>(~session.isLoading)
    /\ [][~session.isLoading => ~session'.isLoading]_vars

\* Loading has ended and a logout and a login have completed since.
C8_Witness ==
    /\ ~session.isLoading /\ initPc = "done"
    /\ \E c \in Slots : calls[c].op = "logout" /\ calls[c].pc = "resolved"
    /\ \E c \in Slots : calls[c].op = "login" /\ calls[c].pc = "resolved"

\* C9: the keystore entry is absent or a non-empty string.
C9_StoredTokenWellFormed == store = Null \/ IsToken(store)

\* A login answered with an empty token has failed and stored nothing.
C9_Witness ==
    \E c \in Slots :
        /\ calls[c].op = "login" /\ calls[c].token = Str("")
        /\ calls[c].pc = "rejected"
        /\ store = Null

\* C10: with a working keystore, getToken right after setToken(T), T a
\* non-empty string, returns T, and right after removeToken returns null.
C10_StoreRoundTrip ==
    LET l == client.last
        p == client.prev
    IN  l.op = "getToken" /\ l.ok /\ p.ok =>
          /\ p.op = "setToken" /\ IsToken(p.arg) => l.ret = p.arg
          /\ p.op = "removeToken" => l.ret = Null

\* After an earlier operation, tokB was set and read back.
C10_Witness ==
    /\ client.done = 3
    /\ client.prev.op = "setToken" /\ client.prev.ok
    /\ client.prev.arg = Str("tokB")
    /\ client.last.op = "getToken" /\ client.last.ok
    /\ client.last.ret = Str("tokB")
    /\ store = Str("tokB")

\* C11: setToken("") and setToken of a value that is not a string fail with
\* the error 'Invalid token format' and leave the keystore as it was,
\* whether it was empty or held a token.
C11_InvalidTokenRejected ==
    [][client.pc = "await" /\ client.op = "setToken" /\ ~IsToken(client.arg) =>
         /\ client'.last.err = PlainError("Invalid token format")
         /\ store' = store]_vars

\* setToken(7) has failed while a token was stored, and the token is kept.
C11_Witness ==
    /\ client.prev.op = "setToken" /\ client.prev.arg = Str("tokA")
    /\ client.prev.err = NoError
    /\ client.last.op = "setToken" /\ client.last.arg = Num("7")
    /\ client.last.err = InvalidFormat
    /\ store = Str("tokA")

\* The first of a list of candidates that is available, else.
RECURSIVE FirstAvailable(_, _)
FirstAvailable(candidates, else) ==
    IF Len(candidates) = 0 THEN else
    ELSE IF Head(candidates).available THEN Head(candidates).value
    ELSE FirstAvailable(Tail(candidates), else)

\* What a failure offers as its message, in the order of the policy: the
\* payload's error, its errors joined, its message, the failure's own
\* message.  Only the failed response of a request carries a payload, only
\* an Error a message of its own.
MessageCandidates(e) ==
    (IF e.k = "axios"
        THEN << [available |-> e.data.error # "", value |-> e.data.error],
                [available |-> e.data.errors # << >>,
                 value |-> JoinComma(e.data.errors)],
                [available |-> e.data.message # "",
                 value |-> e.data.message] >>
        ELSE << >>)
    \o << [available |-> e.k \in {"axios", "error"}, value |-> e.message] >>

\* C12: getErrorMessage returns the first available of the payload's error,
\* its non-empty errors list joined with ', ', its message, the failure's
\* own message, else 'An unexpected error occurred'; so {error: e} gives e
\* whatever else is there, and {message: 'x', errors: ['a','b']} 'a, b'.
C12_MessagePriority ==
    /\ probe.pc = "returned" =>
         probe.out = FirstAvailable(MessageCandidates(probe.error),
                                    "An unexpected error occurred")
    /\ probe.pc = "returned" /\ probe.error.k = "axios" =>
         /\ probe.error.data.error = "e" => probe.out = "e"
         /\ probe.error.data = [error |-> "", errors |-> <<"a", "b">>,
                                message |-> "x"] => probe.out = "a, b"

\* {message: 'x', errors: ['a','b']} has been given and 'a, b' returned.
C12_Witness ==
    /\ probe.pc = "returned"
    /\ probe.error.k = "axios"
    /\ probe.error.data.error = "" /\ probe.error.data.message = "x"
    /\ probe.error.data.errors = <<"a", "b">>
    /\ probe.out = "a, b"

\* C13: no step of an updatePassword, from its start to its success or
\* failure, changes Session; when it fails the caller receives the message
\* getErrorMessage gives for the failure that reached the operation.
C13_UpdatePasswordKeepsSession ==
    [][\A c \in Slots :
         calls'[c] # calls[c] /\ calls'[c].op = "updatePassword" =>
           /\ session' = session
           /\ calls'[c].pc = "rejected" =>
                /\ calls'[c].caught.k # "none"
                /\ calls'[c].thrown = getErrorMessage(calls'[c].caught)
           /\ calls'[c].pc = "resolved" => calls'[c].caught.k = "none"]_vars

\* An updatePassword of a signed-in user was answered 401 and has failed,
\* and the user is still signed in.
C13_Witness ==
    \E c \in Slots :
        /\ calls[c].op = "updatePassword" /\ calls[c].pc = "rejected"
        /\ calls[c].caught = BadCredentials
        /\ calls[c].thrown = "Invalid email or password."
        /\ session.isAuthenticated /\ session.user # {} /\ ~session.isLoading

\* C14: calls are not serialized.  Each login that succeeds writes its own
\* user into Session at the moment it returns, whatever other call is in
\* flight or has written before, and between such writes only a logout or
\* initializeAuth writes Session: of two overlapping logins that both
\* succeed, the one that writes last leaves its user, whichever was started
\* first.
C14_LastWriteWins ==
    [][/\ \A c \in Slots :
            calls'[c].op = "login" /\ Reaches(c, "resolved") =>
              /\ calls[c].pc = "setState"
              /\ session'.user = calls'[c].user
              /\ calls'[c].user = {normalizeUser(RailsUser(calls'[c].n))}
       /\ session'.user # session.user =>
            \/ \E c \in Slots : Reaches(c, "resolved")
            \/ initPc' # initPc]_vars

\* Two logins overlapped and both succeeded; the one started first wrote
\* last, and Session shows its user.
C14_Witness ==
    /\ calls[1].op = "login" /\ calls[1].pc = "resolved" /\ calls[1].n = 1
    /\ calls[2].op = "login" /\ calls[2].pc = "resolved" /\ calls[2].n = 2
    /\ initPc = "done"
    /\ session = AuthState({normalizeUser(RailsUser(1))}, TRUE, FALSE)
    /\ store = IssuedToken(1)

\* The login and register calls in flight.
SubmitsInFlight ==
    {c \in Slots : calls[c].op \in {"login", "register"} /\ InFlight(c)}

\* C15: from LoginScreen at most one login or register call is in flight at
\* any time; isSubmitting is true from the moment a validated submit starts
\* its call until handleSubmit has seen that call settle, and once the call
\* has settled, with success or failure, isSubmitting returns to false.
C15_OneSubmitInFlight ==
    /\ [](/\ Cardinality(SubmitsInFlight) <= 1
          /\ SubmitsInFlight # {} => screen.isSubmitting
          /\ screen.isSubmitting =>
               /\ screen.pc = "await"
               /\ calls[screen.call].op \in {"login", "register"}
               /\ SubmitsInFlight \subseteq {screen.call})
    /\ [][screen.isSubmitting /\ ~screen'.isSubmitting =>
            Settled(screen.call) /\ calls' = calls]_vars
    /\ \A outcome \in {"resolved", "rejected"} :
          (screen.isSubmitting /\ calls[screen.call].pc = outcome)
              ~> ~screen.isSubmitting

\* A login from the screen failed, the screen was released and the second
\* submit is in flight.
C15_Witness ==
    /\ nstarted = 2
    /\ screen.isSubmitting /\ screen.mode = "login"
    /\ calls[1].op = "login" /\ InFlight(1) /\ calls[1].n = 2
    /\ calls[2].op = "none"
    /\ session.user = {}

\* A text is blank when nothing is left of it after trimming.
Blank(text) == trim(text) = << >>

\* C19: handleSubmit calls login only if email and password are non-blank
\* after trimming, and register only if first name, last name, email, phone,
\* password and confirmation are non-blank, the trimmed phone has exactly
\* 10 characters, the password at least 8 and the confirmation equals the
\* password; a submit that fails validation dispatches no request, leaves
\* Session and the keystore unchanged and isSubmitting false.
C19_SubmitOnlyWhenValid ==
    [][/\ \A c \in Slots :
            calls'[c] # calls[c] /\ calls'[c].pc = "getToken" =>
              /\ calls'[c].op = "login" =>
                   /\ screen.mode = "login"
                   /\ ~Blank(screen.email) /\ ~Blank(screen.password)
              /\ calls'[c].op = "register" =>
                   /\ screen.mode = "signup"
                   /\ \A field \in Fields : ~Blank(screen[field])
                   /\ Len(trim(screen.phone)) = 10
                   /\ Len(screen.password) >= 8
                   /\ screen.passwordConfirmation = screen.password
              /\ calls'[c].op \in {"login", "register"}
              /\ screen'.isSubmitting
       /\ (/\ screen'.errors # screen.errors
           /\ \E e \in screen'.errors :
                 e.message \in {"Email is required", "Password is required",
                                "First name is required",
                                "Last name is required",
                                "Phone number is required",
                                "Phone number must be 10 digits",
                                "Password must be at least 8 characters",
                                "Please confirm your password",
                                "Passwords do not match"})
          => /\ calls' = calls /\ nstarted' = nstarted
             /\ session' = session /\ store' = store
             /\ ~screen.isSubmitting /\ ~screen'.isSubmitting]_vars

\* A register has been dispatched for a valid form whose password starts
\* with a blank.
C19_Witness ==
    /\ screen.mode = "signup" /\ screen.isSubmitting
    /\ screen.password = <<" ">> \o Rep("p", 7)
    /\ \E c \in Slots : calls[c].op = "register" /\ calls[c].pc = "sent"
    /\ nstarted = 1

\* C16: whenever initializeAuth has completed and no operation is in flight,
\* an authenticated Session implies that the keystore holds a token.
C16_AuthenticatedHasToken ==
    initPc = "done" /\ NoneInFlight /\ session.isAuthenticated =>
        IsToken(store)

\* C17: whenever no operation is in flight and Session.user is present, the
\* keystore holds the token that came in the same success envelope as that
\* user.
C17_TokenMatchesUser ==
    NoneInFlight /\ session.user # {} =>
        \E n \in 1..MaxCalls :
            /\ session.user = {normalizeUser(RailsUser(n))}
            /\ store = IssuedToken(n)

\* C18: once a logout has completed and left Session torn down and the
\* keystore empty, they stay so as long as no call started after that logout
\* exists: what was in flight when logout ran (initializeAuth, a login or
\* register started earlier) re-authenticates nothing and stores nothing.
C18_LogoutIsFinal ==
    [][\A l \in Slots :
         /\ calls[l].op = "logout" /\ calls[l].pc = "resolved"
         /\ session = AuthState({}, FALSE, FALSE) /\ store = Null
         /\ \A c \in Slots : calls'[c].n <= calls[l].n
         => session' = session /\ store' = store]_vars

=============================================================================
